---- MODULE Spec2Model ----
(***************************************************************************)
(* Robot command control plane of LePetPal (backend/): the StatusStore,    *)
(* the CommandManager with its command and homing worker threads, the      *)
(* ModelRunner chunk producer, the SafetyManager, the mock ArmAdapter and  *)
(* the HTTP facade of app.py.                                              *)
(*                                                                         *)
(* Python values are kept as strings: None is "None", a dict key that is   *)
(* missing is a field that is not in the record's DOMAIN.  Joint values    *)
(* are integers in hundredths (2.5 is 250, 0.25 is 25, 30.0 is 3000).      *)
(***************************************************************************)
EXTENDS Integers, Sequences, FiniteSets, TLC

\* ------------------------------------------------------------------ bounds
\* Requests accepted in one run of Spec (their ids, uuid4 values, are 1, 2, ...).
MaxReq == 2
\* Requests accepted in one run of RaceSpec, which is Spec with room for a
\* third request: a command, a go-home and a second command.
MaxReqRace == 3
\* The smolvla producer counts its steps without end; the count saturates here.
MaxStep == 1

VARIABLES
  data,      \* StatusStore._data: request id -> status dict
  active,    \* CommandManager._active_req_id (None is 0)
  cancel,    \* CommandManager._cancel_event
  thr,       \* the threads spawned so far: request id -> its position
  joints,    \* ArmAdapter._joints
  nextId,    \* the next uuid4 value
  mode,      \* ModelRunner.mode after _load
  camera,    \* ModelRunner.camera ("None" or "cam")
  call,      \* the public call handled by the step just taken, with what it
             \* returned (NoCall after a thread's step)
  preempted  \* history: the command requests that were non-terminal when
             \* interrupt_and_home() was called, each with whether its worker
             \* still had a cancel check ahead of it then and the number of
             \* chunks it had pulled

VARIABLES
  video,     \* the app's CameraCapture (cap opened, last_frame,
             \* reconnect_attempts) and what mjpeg_stream did last
  lrw        \* the LeRobotWorker: its queue, its lazy fields and where its
             \* thread stands

vars == <<data, active, cancel, thr, joints, nextId, mode, camera, call, preempted,
          video, lrw>>

None == 0

\* A call of the public surface: the operation, its argument, how it ended
\* (a return, an exception name or an HTTP status) and the request id in its answer
NoBody == [none |-> "None"]
Call(op, arg, code, id) == [op |-> op, arg |-> arg, code |-> code, id |-> id, body |-> NoBody]
NoCall == Call("none", "", "none", None)
\* An HTTP exchange: the route, the prompt or id sent, the status code and the JSON answered
Response(op, arg, code, id, body) == [op |-> op, arg |-> arg, code |-> code, id |-> id, body |-> body]
Ids == 1..(IF MaxReq < MaxReqRace THEN MaxReqRace ELSE MaxReq)

Terminal == {"succeeded", "failed", "aborted"}

\* ---------------------------------------------------------------- StatusStore
\* StatusStore.create: self._data[request_id] = dict(initial)
StoreCreate(d, id, initial) ==
  [x \in (DOMAIN d) \cup {id} |-> IF x = id THEN initial ELSE d[x]]

\* dict.update(patch): the patch's keys overwrite, the other keys stay
DictUpdate(s, patch) ==
  [f \in (DOMAIN s) \cup (DOMAIN patch) |-> IF f \in DOMAIN patch THEN patch[f] ELSE s[f]]

\* StatusStore.update: if request_id in self._data: self._data[request_id].update(patch)
StoreUpdate(d, id, patch) ==
  IF id \in DOMAIN d
  THEN [d EXCEPT ![id] = DictUpdate(d[id], patch)]
  ELSE d

\* StatusStore.get: a copy of the dict, or None
StoreGet(d, id) == IF id \in DOMAIN d THEN d[id] ELSE [none |-> "None"]

IsTerminal(d, id) == id \in DOMAIN d /\ d[id].state \in Terminal
NonTerminal(d, id) == id \in DOMAIN d /\ d[id].state \notin Terminal

\* ---------------------------------------------------------------- ModelRunner
Chunk(phase, targets, conf) == [phase |-> phase, targets |-> targets, confidence |-> conf]

\* ModelRunner._infer_scripted: the two phase lists
ScriptedPhases(instruction) ==
  IF instruction = "get the treat"
  THEN << Chunk("detect_1",   <<0, 500, 0, 0, 0, 2000>>,           "0.7"),
          Chunk("detect_2",   <<0, 1000, 500, 0, 0, 2000>>,        "0.72"),
          Chunk("approach_1", <<1000, 1500, 800, -500, 0, 2000>>,  "0.75"),
          Chunk("approach_2", <<1500, 2000, 1000, -1000, 0, 2000>>, "0.77"),
          Chunk("grasp_1",    <<1500, 2200, 1200, -1200, 0, 3500>>, "0.78"),
          Chunk("grasp_2",    <<1500, 2500, 1500, -1500, 0, 5000>>, "0.8"),
          Chunk("lift_1",     <<1200, 2000, 1700, -1200, 0, 5000>>, "0.81"),
          Chunk("lift_2",     <<1000, 1500, 2000, -1000, 0, 5000>>, "0.82"),
          Chunk("drop_1",     <<700, 1200, 1500, -500, 0, 3500>>,  "0.83"),
          Chunk("drop_2",     <<500, 1000, 1000, 0, 0, 2000>>,     "0.84") >>
  ELSE << Chunk("detect_1",   <<0, 500, 0, 0, 0, 2000>>,           "0.7"),
          Chunk("detect_2",   <<0, 1000, 500, 0, 0, 2000>>,        "0.72"),
          Chunk("approach_1", <<1000, 1500, 1000, -500, 200, 2000>>, "0.74"),
          Chunk("approach_2", <<1500, 2000, 1200, -800, 400, 2000>>, "0.76"),
          Chunk("approach_3", <<2000, 2500, 1500, -1000, 500, 2000>>, "0.78"),
          Chunk("grasp_1",    <<2000, 2700, 1700, -1200, 500, 3500>>, "0.79"),
          Chunk("grasp_2",    <<2000, 3000, 2000, -1500, 500, 5000>>, "0.8"),
          Chunk("lift_1",     <<1700, 2500, 2200, -1200, 200, 5000>>, "0.81"),
          Chunk("lift_2",     <<1500, 2000, 2500, -1000, 0, 5000>>, "0.82"),
          Chunk("ready_1",    <<1200, 1700, 2700, -700, 0, 5000>>, "0.84"),
          Chunk("ready_2",    <<1000, 1500, 3000, -500, 0, 5000>>, "0.85") >>

\* The 6D actions the smolvla policy may output (any floats; one sample, with
\* targets[0] = 10.0).
SmolTargets == { <<1000, 0, 0, 0, 0, 0>> }

\* ModelRunner._infer_smolvla yields nothing when the policy is not loaded or
\* no camera was given; otherwise it loops without end.
SmolRuns == mode = "smolvla" /\ camera = "cam"

\* One next() on the generator returned by ModelRunner.infer, for a worker that
\* has received n chunks so far.  The result is a set of outcomes: a chunk,
\* the end of the stream, or an exception raised inside the smolvla loop.
\* The smolvla step counter saturates at MaxStep.
InferNext(instruction, n) ==
  IF mode = "smolvla"
  THEN IF ~SmolRuns
       THEN { [kind |-> "end"] }
       ELSE { [kind |-> "chunk", n |-> IF n < MaxStep THEN n + 1 ELSE MaxStep,
               chunk |-> Chunk("step_" \o ToString(IF n < MaxStep THEN n + 1 ELSE MaxStep), t, "0.9")]
                : t \in SmolTargets }
            \cup { [kind |-> "raise"] }
  ELSE IF n < Len(ScriptedPhases(instruction))
       THEN { [kind |-> "chunk", n |-> n + 1, chunk |-> ScriptedPhases(instruction)[n + 1]] }
       ELSE { [kind |-> "end"] }

\* ---------------------------------------------------------------- SafetyManager
\* SafetyManager.validate_targets: only the length is checked
ValidateTargets(chunk) == Len(chunk.targets) = 6

Abs(v) == IF v < 0 THEN -v ELSE v

\* SafetyManager.ready_to_throw: len(joints) == 6 and abs(joints[2]) < 0.25
ReadyToThrow(j) == Len(j) = 6 /\ Abs(j[3]) < 25

\* SafetyManager.workspace_clear
WorkspaceClear == TRUE

\* ---------------------------------------------------------------- ArmAdapter (mock)
HomePose == <<0, 0, 0, 0, 0, 0>>

\* ArmAdapter.send_joint_targets: self._joints = list(targets) when 6 long
ArmSend(j, chunk) == IF Len(chunk.targets) = 6 THEN chunk.targets ELSE j

\* ArmAdapter.home: self._joints = [0.0] * 6; driver errors are swallowed
ArmHome(j) == HomePose

\* ---------------------------------------------------------------- CommandManager
Prompts == {"pick up the ball", "get the treat"}

NoThread == [kind |-> "none", pc |-> "none", prompt |-> "", n |-> 0, chunk |-> Chunk("", <<>>, "")]
NewJob(prompt) == [kind |-> "job", pc |-> "begin", prompt |-> prompt, n |-> 0, chunk |-> Chunk("", <<>>, "")]
NewHome == [kind |-> "home", pc |-> "home", prompt |-> "", n |-> 0, chunk |-> Chunk("", <<>>, "")]

At(r, kind, pc) == thr[r].kind = kind /\ thr[r].pc = pc
Goto(r, pc) == [thr EXCEPT ![r].pc = pc]

\* CameraCapture.__init__ returns only with the camera opened: no frame read
\* yet, no reconnection attempted; mjpeg_stream has not been iterated
NewCameraCapture ==
  [opened |-> TRUE, index |-> 0, width |-> 1280, height |-> 720,
   last_frame |-> "None", reconnect_attempts |-> 0,
   read |-> "none", out |-> "none", emitted |-> 0]

\* LeRobotWorker.__init__: nothing initialised, an empty queue, the thread
\* waiting in queue.get()
NewLeRobotWorker ==
  [queue |-> <<>>, initialized |-> FALSE, pc |-> "get", item |-> None,
   done |-> <<>>]

\* ModelRunner(model_path, rate_hz, mode, camera): scripted, smolvla without a
\* camera (as app.py builds it) and smolvla with a camera
ModelConfigs == { <<"scripted", "None">>, <<"smolvla", "None">>, <<"smolvla", "cam">> }

Init ==
  /\ data = [x \in {} |-> [state |-> ""]]
  /\ active = None
  /\ cancel = FALSE
  /\ thr = [r \in Ids |-> NoThread]
  /\ joints = HomePose
  /\ nextId = 1
  /\ \E c \in ModelConfigs : mode = c[1] /\ camera = c[2]
  /\ call = NoCall
  /\ preempted = {}
  /\ video = NewCameraCapture
  /\ lrw = NewLeRobotWorker

\* CommandManager.start when the slot is occupied: raise BusyError
StartBusy(prompt) ==
  /\ call' = Call("start", prompt, "BusyError", None)
  /\ UNCHANGED <<data, active, cancel, thr, joints, nextId, mode, camera, preempted, video, lrw>>

\* an admission that takes the slot but leaves the cancel flag as it finds it
StartAdmitNoClear(prompt) ==
  /\ nextId \in Ids
  /\ active' = nextId
  /\ data' = StoreCreate(data, nextId,
               [state |-> "planning", phase |-> "None", message |-> "Accepted: " \o prompt])
  /\ thr' = [thr EXCEPT ![nextId] = NewJob(prompt)]
  /\ nextId' = nextId + 1
  /\ call' = Call("start", prompt, "returned", nextId)
  /\ UNCHANGED <<cancel, joints, mode, camera, preempted, video, lrw>>

\* CommandManager.start when the slot is empty: take the slot, clear the
\* cancel flag, create the Status and spawn the worker
StartAdmit(prompt) ==
  /\ nextId \in Ids
  /\ active' = nextId
  /\ cancel' = FALSE
  /\ data' = StoreCreate(data, nextId,
               [state |-> "planning", phase |-> "None", message |-> "Accepted: " \o prompt])
  /\ thr' = [thr EXCEPT ![nextId] = NewJob(prompt)]
  /\ nextId' = nextId + 1
  /\ call' = Call("start", prompt, "returned", nextId)
  /\ UNCHANGED <<joints, mode, camera, preempted, video, lrw>>

\* The worker with record t has not yet pulled its last chunk: the for
\* statement of line 73 will hand it another one, and line 74 will read the
\* cancel flag again.
ChecksAhead(t) ==
  /\ t.pc \in {"begin", "next", "send", "arm"}
  /\ \E o \in InferNext(t.prompt, t.n) : o.kind = "chunk"

\* start() without the single-active guard: it admits over an occupied slot
StartUnguarded(prompt) == StartAdmit(prompt)

\* start() whose admission does not clear the cancel flag
StartKeepsFlag(prompt) ==
  IF active # None THEN StartBusy(prompt) ELSE StartAdmitNoClear(prompt)

\* CommandManager.start
Start(prompt) ==
  IF active # None THEN StartBusy(prompt) ELSE StartAdmit(prompt)

\* interrupt_and_home() that forgets self._cancel_event.set()
InterruptAndHomeNoCancel ==
  /\ nextId \in Ids
  /\ UNCHANGED cancel
  /\ data' = StoreCreate(data, nextId,
               [state |-> "executing", phase |-> "None", message |-> "Go home"])
  /\ thr' = [thr EXCEPT ![nextId] = NewHome]
  /\ nextId' = nextId + 1
  /\ call' = Call("interrupt_and_home", "", "returned", nextId)
  /\ UNCHANGED <<active, joints, mode, camera, preempted, video, lrw>>

\* CommandManager.interrupt_and_home
InterruptAndHome ==
  /\ nextId \in Ids
  /\ cancel' = TRUE
  /\ data' = StoreCreate(data, nextId,
               [state |-> "executing", phase |-> "None", message |-> "Go home"])
  /\ thr' = [thr EXCEPT ![nextId] = NewHome]
  /\ nextId' = nextId + 1
  /\ call' = Call("interrupt_and_home", "", "returned", nextId)
  /\ preempted' = preempted \cup
       { [id |-> r, ahead |-> ChecksAhead(thr[r]), n |-> thr[r].n] :
           r \in {x \in Ids : thr[x].kind = "job" /\ NonTerminal(data, x)} }
  /\ UNCHANGED <<active, joints, mode, camera, video, lrw>>

\* ------------------------------------------------- CommandManager._run_job
\* the loop head handing a chunk to the arm without the safety check
NextChunkUnchecked(t, o) ==
  IF o.kind = "chunk"
  THEN [t EXCEPT !.pc = IF cancel THEN "abort_home" ELSE "arm",
                 !.n = o.n, !.chunk = o.chunk]
  ELSE IF o.kind = "end"
  THEN [t EXCEPT !.pc = "guard"]
  ELSE [t EXCEPT !.pc = "except"]

\* the loop head whose cancel path skips arm.home() and goes to the update
NextChunkNoHome(t, o) ==
  IF o.kind = "chunk"
  THEN [t EXCEPT !.pc = IF cancel THEN "abort_upd" ELSE "send",
                 !.n = o.n, !.chunk = o.chunk]
  ELSE IF o.kind = "end"
  THEN [t EXCEPT !.pc = "guard"]
  ELSE [t EXCEPT !.pc = "except"]

\* a loop head that also reads the cancel flag when the stream has ended
NextChunkCancelAtEnd(t, o) ==
  IF o.kind = "chunk"
  THEN [t EXCEPT !.pc = IF cancel THEN "abort_home" ELSE "send",
                 !.n = o.n, !.chunk = o.chunk]
  ELSE IF o.kind = "end"
  THEN [t EXCEPT !.pc = IF cancel THEN "abort_home" ELSE "guard"]
  ELSE [t EXCEPT !.pc = "except"]

\* lines 73-74: the for statement asks the generator for its next chunk; when
\* one arrives, if self._cancel_event.is_set() decides where the body goes.
\* t is the worker's record, o the generator's outcome.
NextChunk(t, o) ==
  IF o.kind = "chunk"
  THEN [t EXCEPT !.pc = IF cancel THEN "abort_home" ELSE "send",
                 !.n = o.n, !.chunk = o.chunk]
  ELSE IF o.kind = "end"
  THEN [t EXCEPT !.pc = "guard"]
  ELSE [t EXCEPT !.pc = "except"]

\* line 71: status.update(executing / detect / Detecting)
JobBegin(r) ==
  /\ At(r, "job", "begin")
  /\ data' = StoreUpdate(data, r,
               [state |-> "executing", phase |-> "detect", message |-> "Detecting"])
  /\ thr' = Goto(r, "next")
  /\ UNCHANGED <<active, cancel, joints, nextId, mode, camera, preempted, video, lrw>>
  /\ call' = NoCall

\* lines 73-74: next chunk and cancel check
JobNextChunk(r) ==
  /\ At(r, "job", "next")
  /\ \E o \in InferNext(thr[r].prompt, thr[r].n) :
       thr' = [thr EXCEPT ![r] = NextChunk(@, o)]
  /\ UNCHANGED <<data, active, cancel, joints, nextId, mode, camera, preempted, video, lrw>>
  /\ call' = NoCall

\* line 75: self.arm.home() on the cancel path
JobAbortHome(r) ==
  /\ At(r, "job", "abort_home")
  /\ joints' = ArmHome(joints)
  /\ thr' = Goto(r, "abort_upd")
  /\ UNCHANGED <<data, active, cancel, nextId, mode, camera, preempted, video, lrw>>
  /\ call' = NoCall

\* the cancel path without its return: the loop body goes on after aborted
JobAbortUpdateNoReturn(r) ==
  /\ At(r, "job", "abort_upd")
  /\ data' = StoreUpdate(data, r,
               [state |-> "aborted", message |-> "Interrupted by Go Home"])
  /\ thr' = Goto(r, "send")
  /\ UNCHANGED <<active, cancel, joints, nextId, mode, camera, preempted, video, lrw>>
  /\ call' = NoCall

\* lines 76-77: status.update(aborted); return
JobAbortUpdate(r) ==
  /\ At(r, "job", "abort_upd")
  /\ data' = StoreUpdate(data, r,
               [state |-> "aborted", message |-> "Interrupted by Go Home"])
  /\ thr' = Goto(r, "finally")
  /\ UNCHANGED <<active, cancel, joints, nextId, mode, camera, preempted, video, lrw>>
  /\ call' = NoCall

\* lines 78-80: if not self.safety.validate_targets(chunk): status.update(failed); return
JobValidate(r) ==
  /\ At(r, "job", "send")
  /\ IF ~ValidateTargets(thr[r].chunk)
     THEN /\ data' = StoreUpdate(data, r,
                       [state |-> "failed", message |-> "safety check failed"])
          /\ thr' = Goto(r, "finally")
     ELSE /\ data' = data
          /\ thr' = Goto(r, "arm")
  /\ UNCHANGED <<active, cancel, joints, nextId, mode, camera, preempted, video, lrw>>
  /\ call' = NoCall

\* lines 82-87: arm.send_joint_targets(chunk), then
\* status.update(phase, confidence, message = phase or "executing") and sleep
JobSendChunk(r) ==
  /\ At(r, "job", "arm")
  /\ joints' = ArmSend(joints, thr[r].chunk)
  /\ data' = StoreUpdate(data, r,
               [phase |-> thr[r].chunk.phase,
                confidence |-> thr[r].chunk.confidence,
                message |-> IF thr[r].chunk.phase = "" THEN "executing"
                            ELSE thr[r].chunk.phase])
  /\ thr' = Goto(r, "next")
  /\ UNCHANGED <<active, cancel, nextId, mode, camera, preempted, video, lrw>>
  /\ call' = NoCall

\* a throw macro guard that does not look at the prompt
JobGuardAnyPrompt(r) ==
  /\ At(r, "job", "guard")
  /\ thr' = Goto(r, IF ReadyToThrow(joints) /\ WorkspaceClear
                    THEN "throw" ELSE "succeed")
  /\ UNCHANGED <<data, active, cancel, joints, nextId, mode, camera, preempted, video, lrw>>
  /\ call' = NoCall

\* line 90: the throw macro guard, evaluated when the stream has ended
JobGuard(r) ==
  /\ At(r, "job", "guard")
  /\ thr' = Goto(r, IF /\ thr[r].prompt = "pick up the ball"
                       /\ ReadyToThrow(joints)
                       /\ WorkspaceClear
                    THEN "throw" ELSE "succeed")
  /\ UNCHANGED <<data, active, cancel, joints, nextId, mode, camera, preempted, video, lrw>>
  /\ call' = NoCall

\* ArmAdapter.throw_macro: the mock arm only sleeps; with a hardware driver
\* the two set_joint_positions calls are not guarded and may raise
ThrowMacroOutcomes == {"returns", "raises"}

\* line 91: self.arm.throw_macro()
JobThrow(r) ==
  /\ At(r, "job", "throw")
  /\ \E o \in ThrowMacroOutcomes :
       thr' = Goto(r, IF o = "returns" THEN "handoff" ELSE "except")
  /\ UNCHANGED <<data, active, cancel, joints, nextId, mode, camera, preempted, video, lrw>>
  /\ call' = NoCall

\* lines 92-93: status.update(handoff_macro / throwing)
JobHandoff(r) ==
  /\ At(r, "job", "handoff")
  /\ data' = StoreUpdate(data, r, [state |-> "handoff_macro", message |-> "throwing"])
  /\ thr' = Goto(r, "succeed")
  /\ UNCHANGED <<active, cancel, joints, nextId, mode, camera, preempted, video, lrw>>
  /\ call' = NoCall

\* line 95: status.update(succeeded / Completed / duration_ms)
JobSucceed(r) ==
  /\ At(r, "job", "succeed")
  /\ data' = StoreUpdate(data, r,
               [state |-> "succeeded", message |-> "Completed", duration_ms |-> "elapsed"])
  /\ thr' = Goto(r, "finally")
  /\ UNCHANGED <<active, cancel, joints, nextId, mode, camera, preempted, video, lrw>>
  /\ call' = NoCall

\* an except clause that swallows the exception without a status update
JobExceptSilent(r) ==
  /\ At(r, "job", "except")
  /\ thr' = Goto(r, "finally")
  /\ UNCHANGED <<data, active, cancel, joints, nextId, mode, camera, preempted, video, lrw>>
  /\ call' = NoCall

\* lines 96-97: except Exception as e: status.update(failed / str(e))
JobExcept(r) ==
  /\ At(r, "job", "except")
  /\ data' = StoreUpdate(data, r, [state |-> "failed", message |-> "str(e)"])
  /\ thr' = Goto(r, "finally")
  /\ UNCHANGED <<active, cancel, joints, nextId, mode, camera, preempted, video, lrw>>
  /\ call' = NoCall

\* lines 99-100 (and 64-65): with self._active_lock: self._active_req_id = None
ThreadFinally(r) ==
  /\ thr[r].kind \in {"job", "home"} /\ thr[r].pc = "finally"
  /\ active' = None
  /\ thr' = Goto(r, "clear")
  /\ UNCHANGED <<data, cancel, joints, nextId, mode, camera, preempted, video, lrw>>
  /\ call' = NoCall

\* a thread end that leaves the cancel flag as it is
ThreadClearKeepsFlag(r) ==
  /\ thr[r].kind \in {"job", "home"} /\ thr[r].pc = "clear"
  /\ thr' = Goto(r, "done")
  /\ UNCHANGED <<data, active, cancel, joints, nextId, mode, camera, preempted, video, lrw>>
  /\ call' = NoCall

\* line 101 (and 66): self._cancel_event.clear(); the thread ends
ThreadClear(r) ==
  /\ thr[r].kind \in {"job", "home"} /\ thr[r].pc = "clear"
  /\ cancel' = FALSE
  /\ thr' = Goto(r, "done")
  /\ UNCHANGED <<data, active, joints, nextId, mode, camera, preempted, video, lrw>>
  /\ call' = NoCall

\* ------------------------------------------------- CommandManager._run_home
\* ArmAdapter.home catches what its driver raises, so home() returns normally
ArmHomeRaises == FALSE

\* line 58: self.arm.home()
HomeArm(r) ==
  /\ At(r, "home", "home")
  /\ joints' = ArmHome(joints)
  /\ thr' = Goto(r, IF ArmHomeRaises THEN "home_except" ELSE "home_upd")
  /\ UNCHANGED <<data, active, cancel, nextId, mode, camera, preempted, video, lrw>>
  /\ call' = NoCall

\* lines 59-61: status.update(succeeded / At home pose), or in the except
\* clause status.update(failed / home error)
HomeUpdate(r) ==
  /\ thr[r].kind = "home" /\ thr[r].pc \in {"home_upd", "home_except"}
  /\ data' = StoreUpdate(data, r,
               IF thr[r].pc = "home_upd"
               THEN [state |-> "succeeded", message |-> "At home pose"]
               ELSE [state |-> "failed", message |-> "home error: str(e)"])
  /\ thr' = Goto(r, "finally")
  /\ UNCHANGED <<active, cancel, joints, nextId, mode, camera, preempted, video, lrw>>
  /\ call' = NoCall

JobStep(r) ==
  \/ JobBegin(r)
  \/ JobNextChunk(r)
  \/ JobAbortHome(r)
  \/ JobAbortUpdate(r)
  \/ JobValidate(r)
  \/ JobSendChunk(r)
  \/ JobGuard(r)
  \/ JobThrow(r)
  \/ JobHandoff(r)
  \/ JobSucceed(r)
  \/ JobExcept(r)

HomeStep(r) ==
  \/ HomeArm(r)
  \/ HomeUpdate(r)

ThreadStep(r) ==
  \/ JobStep(r)
  \/ HomeStep(r)
  \/ ThreadFinally(r)
  \/ ThreadClear(r)

\* a call of the manager's public surface
ApiCall ==
  \/ \E p \in Prompts : Start(p)
  \/ InterruptAndHome

Next ==
  \/ nextId <= MaxReq /\ ApiCall
  \/ \E r \in Ids : ThreadStep(r)

Spec == Init /\ [][Next]_vars

RaceNext ==
  \/ nextId <= MaxReqRace /\ ApiCall
  \/ \E r \in Ids : ThreadStep(r)

RaceSpec == Init /\ [][RaceNext]_vars

\* ------------------------------------------------------------------ app.py
\* ALLOWED_PROMPTS of app.py
ALLOWED_PROMPTS == {"pick up the ball", "get the treat", "go home"}

\* JSON bodies a client posts to /command: a prompt, and a "command" key
\* that is absent ("None") or 1
Bodies == [prompt : ALLOWED_PROMPTS \cup {"dance"}, command : {"None", "1"}]

\* command(): body.get("command") == 1 selects the ACT task, anything else the replay
TaskName(body) == IF body.command = "1" THEN "throw_act" ELSE "pet"

\* n is 1 once the episode has reported progress
NewEpisode(task) == [kind |-> "episode", pc |-> "import", prompt |-> task, n |-> 0, chunk |-> Chunk("", <<>>, "")]

\* POST /command: mint a request id, create the queued Status, start the
\* run-robot-episode thread, answer 202
Command(body) ==
  /\ nextId \in Ids
  /\ data' = StoreCreate(data, nextId,
               [state |-> "queued", phase |-> "None",
                message |-> "robot episode queued (" \o TaskName(body) \o ")"])
  /\ thr' = [thr EXCEPT ![nextId] = NewEpisode(TaskName(body))]
  /\ nextId' = nextId + 1
  /\ call' = Response("POST /command", body.prompt, "202", nextId,
                      [request_id |-> nextId, status |-> "accepted"])
  /\ UNCHANGED <<active, cancel, joints, mode, camera, preempted, video, lrw>>

\* a status handler that files an entry for an id it does not know
GetStatusCreating(id) ==
  /\ call' = Response("GET /status", "", "200", id,
                      IF id \in DOMAIN data
                      THEN StoreGet(data, id)
                      ELSE [state |-> "failed", phase |-> "None", message |-> "unknown request_id"])
  /\ data' = IF id \in DOMAIN data
             THEN data
             ELSE StoreCreate(data, id,
                    [state |-> "failed", phase |-> "None", message |-> "unknown request_id"])
  /\ UNCHANGED <<active, cancel, thr, joints, nextId, mode, camera, preempted, video, lrw>>

\* GET /status/<request_id>
GetStatus(id) ==
  /\ call' = Response("GET /status", "", "200", id,
                      IF id \in DOMAIN data
                      THEN StoreGet(data, id)
                      ELSE [state |-> "failed", phase |-> "None", message |-> "unknown request_id"])
  /\ UNCHANGED <<data, active, cancel, thr, joints, nextId, mode, camera, preempted, video, lrw>>

\* What the lazy imports of lines 123-143 can do: succeed, fail at a lerobot
\* import before log_say is bound (line 128 or 129), or fail at a later
\* import with log_say bound
ImportOutcomes == {"ok", "fail_before_log_say", "fail_after_log_say"}

\* _run_robot_episode lines 123-150: the imports and their except handler.
\* The handler calls log_say first; when the name is unbound the call raises
\* out of the thread and line 149 never runs.
EpisodeImport(r) ==
  /\ At(r, "episode", "import")
  /\ \E o \in ImportOutcomes :
       /\ thr' = Goto(r, IF o = "ok" THEN "connect" ELSE "done")
       /\ data' = IF o = "fail_after_log_say"
                  THEN StoreUpdate(data, r, [state |-> "failed", message |-> "Import error"])
                  ELSE data
  /\ call' = NoCall
  /\ UNCHANGED <<active, cancel, joints, nextId, mode, camera, preempted, video, lrw>>

\* line 158: status.update(executing / connect)
EpisodeBegin(r) ==
  /\ At(r, "episode", "connect")
  /\ data' = StoreUpdate(data, r,
               [state |-> "executing", phase |-> "connect", message |-> "Connecting robot"])
  /\ thr' = Goto(r, "connecting")
  /\ call' = NoCall
  /\ UNCHANGED <<active, cancel, joints, nextId, mode, camera, preempted, video, lrw>>

\* lines 160-204 / 240-252: build and connect the robot (three attempts, the
\* last failure is raised), then load the policy or the dataset and announce
\* the run; anything raised lands in the handler of line 271.  The status of
\* load_model / load is overwritten by inference / replay in the same step.
EpisodeConnect(r) ==
  /\ At(r, "episode", "connecting")
  /\ \E ok \in BOOLEAN :
       IF ok
       THEN /\ data' = StoreUpdate(data, r,
                         IF thr[r].prompt = "throw_act"
                         THEN [state |-> "executing", phase |-> "inference",
                               message |-> "Running ACT model inference (continuous)"]
                         ELSE [state |-> "executing", phase |-> "replay",
                               message |-> "Replaying episode 0"])
            /\ thr' = Goto(r, "loop")
       ELSE /\ data' = data
            /\ thr' = Goto(r, "except")
  /\ call' = NoCall
  /\ UNCHANGED <<active, cancel, joints, nextId, mode, camera, preempted, video, lrw>>

\* lines 212-238 / 253-264: the control loop (30 s of inference, or the
\* frames of the episode): it reports progress, ends, or raises
EpisodeLoop(r) ==
  /\ At(r, "episode", "loop")
  /\ \E o \in {"progress", "end", "raise"} :
       IF o = "progress"
       THEN /\ data' = StoreUpdate(data, r,
                         [phase |-> IF thr[r].prompt = "throw_act" THEN "inference" ELSE "replay",
                          progress |-> "pct", message |-> "pct%"])
            /\ thr' = [thr EXCEPT ![r].n = 1]
       ELSE /\ data' = data
            /\ thr' = Goto(r, IF o = "end" THEN "finish" ELSE "except")
  /\ call' = NoCall
  /\ UNCHANGED <<active, cancel, joints, nextId, mode, camera, preempted, video, lrw>>

\* lines 267-270: send the ending position (it may raise), then succeeded
EpisodeFinish(r) ==
  /\ At(r, "episode", "finish")
  /\ \E ok \in BOOLEAN :
       IF ok
       THEN /\ data' = StoreUpdate(data, r,
                         [state |-> "succeeded", message |-> "Episode finished and robot disconnected."])
            /\ thr' = Goto(r, "finally")
       ELSE /\ data' = data
            /\ thr' = Goto(r, "except")
  /\ call' = NoCall
  /\ UNCHANGED <<active, cancel, joints, nextId, mode, camera, preempted, video, lrw>>

\* lines 271-275: except Exception: status.update(failed)
EpisodeExcept(r) ==
  /\ At(r, "episode", "except")
  /\ data' = StoreUpdate(data, r, [state |-> "failed", message |-> "str(e) Traceback"])
  /\ thr' = Goto(r, "finally")
  /\ call' = NoCall
  /\ UNCHANGED <<active, cancel, joints, nextId, mode, camera, preempted, video, lrw>>

\* lines 276-283: finally: disconnect the robot, swallowing its errors
EpisodeFinally(r) ==
  /\ At(r, "episode", "finally")
  /\ thr' = Goto(r, "done")
  /\ call' = NoCall
  /\ UNCHANGED <<data, active, cancel, joints, nextId, mode, camera, preempted, video, lrw>>

\* JSON bodies a client posts to /dispense_treat
DispenseBodies == [duration_ms : {-1, 0, 600}]

NewDispense == [kind |-> "episode", pc |-> "import_d", prompt |-> "dispense", n |-> 0, chunk |-> Chunk("", <<>>, "")]

\* POST /dispense_treat: the body is not read and the servo is not called;
\* mint a request id, create the queued Status, start a run-robot-episode
\* thread, answer 202
Dispense(body) ==
  /\ nextId \in Ids
  /\ data' = StoreCreate(data, nextId,
               [state |-> "queued", phase |-> "None", message |-> "robot episode queued"])
  /\ thr' = [thr EXCEPT ![nextId] = NewDispense]
  /\ nextId' = nextId + 1
  /\ call' = Response("POST /dispense_treat", ToString(body.duration_ms), "202", nextId,
                      [request_id |-> nextId, status |-> "accepted"])
  /\ UNCHANGED <<active, cancel, joints, mode, camera, preempted, video, lrw>>

\* dispense._run_robot_episode lines 303-312: the imports; any failure is
\* written as failed and the thread returns.  What follows (connect, load,
\* replay, succeeded or failed) has the shape of the replay episode of /command.
DispenseImport(r) ==
  /\ At(r, "episode", "import_d")
  /\ \E ok \in BOOLEAN :
       /\ thr' = Goto(r, IF ok THEN "connect" ELSE "done")
       /\ data' = IF ok THEN data
                  ELSE StoreUpdate(data, r, [state |-> "failed", message |-> "Import error"])
  /\ call' = NoCall
  /\ UNCHANGED <<active, cancel, joints, nextId, mode, camera, preempted, video, lrw>>

\* JSON bodies a client posts to /speak: text missing ("None"), empty, or a phrase
SpeakBodies == [text : {"None", "", "good dog"}]

\* POST /speak: create_app() registers no such route, the framework answers 404
Speak(body) ==
  /\ call' = Response("POST /speak", body.text, "404", None, NoBody)
  /\ UNCHANGED <<data, active, cancel, thr, joints, nextId, mode, camera, preempted, video, lrw>>

EpisodeStep(r) ==
  \/ EpisodeImport(r)
  \/ EpisodeBegin(r)
  \/ EpisodeConnect(r)
  \/ EpisodeLoop(r)
  \/ EpisodeFinish(r)
  \/ EpisodeExcept(r)
  \/ EpisodeFinally(r)

\* a /health that answers 503 while an episode thread is alive
HealthWhenIdle ==
  /\ call' = Response("GET /health", "", 
                      IF \E r \in Ids : thr[r].kind # "none" /\ thr[r].pc # "done"
                      THEN "503" ELSE "200", None,
                      [status |-> "ok", api |-> 1, version |-> "v0.1"])
  /\ UNCHANGED <<data, active, cancel, thr, joints, nextId, mode, camera, preempted, video, lrw>>

\* GET /health: jsonify({"status": "ok", "api": 1, "version": "v0.1"}), 200
Health ==
  /\ call' = Response("GET /health", "", "200", None,
                      [status |-> "ok", api |-> 1, version |-> "v0.1"])
  /\ UNCHANGED <<data, active, cancel, thr, joints, nextId, mode, camera, preempted, video, lrw>>

\* The HTTP facade: clients post commands and poll, episode threads run
HttpNext ==
  \/ nextId <= MaxReq /\ \E b \in Bodies : Command(b)
  \/ \E id \in 1..MaxReq : GetStatus(id)
  \/ Health
  \/ \E r \in Ids : EpisodeStep(r)

\* create_app(): ModelRunner(MODEL_PATH, rate_hz, mode=model_mode), no camera
HttpInit == Init /\ camera = "None"

HttpSpec == HttpInit /\ [][HttpNext]_vars

\* the steps of the episode thread of /dispense_treat
TreatStep(r) ==
  \/ DispenseImport(r)
  \/ EpisodeBegin(r)
  \/ EpisodeConnect(r)
  \/ EpisodeLoop(r)
  \/ EpisodeFinish(r)
  \/ EpisodeExcept(r)
  \/ EpisodeFinally(r)

\* The treat and speech routes: clients post to /dispense_treat and /speak
\* and poll, episode threads run
TreatNext ==
  \/ nextId <= MaxReq /\ \E b \in DispenseBodies : Dispense(b)
  \/ \E b \in SpeakBodies : Speak(b)
  \/ \E id \in 1..MaxReq : GetStatus(id)
  \/ \E r \in Ids : TreatStep(r)

TreatSpec == HttpInit /\ [][TreatNext]_vars

\* Spec with the scheduler's guarantee: a thread that can take a step is
\* eventually given the processor.  Nothing obliges a client to call.
FairSpec == Init /\ [][Next]_vars /\ \A r \in Ids : WF_vars(ThreadStep(r))

\* ------------------------------------------------- StatusStore on its own
\* dicts handed to create() by the callers of the store
StoreInitials ==
  { [state |-> "planning", phase |-> "None", message |-> "Accepted"],
    [state |-> "queued", phase |-> "None", message |-> "robot episode queued"] }

\* patches handed to update() by the callers of the store
StorePatches ==
  { [state |-> "executing", phase |-> "detect", message |-> "Detecting"],
    [phase |-> "replay", progress |-> "pct", message |-> "pct%"],
    [state |-> "succeeded", message |-> "Completed", duration_ms |-> "elapsed"],
    [state |-> "failed", message |-> "safety check failed"],
    [state |-> "aborted", message |-> "Interrupted by Go Home"] }

\* status.create(request_id, initial)
StoreCreateCall(id, initial) ==
  /\ data' = StoreCreate(data, id, initial)
  /\ call' = Call("create", "", "returned", id)
  /\ UNCHANGED <<active, cancel, thr, joints, nextId, mode, camera, preempted, video, lrw>>

\* status.update(request_id, patch)
StoreUpdateCall(id, patch) ==
  /\ data' = StoreUpdate(data, id, patch)
  /\ call' = Call("update", "", "returned", id)
  /\ UNCHANGED <<active, cancel, thr, joints, nextId, mode, camera, preempted, video, lrw>>

\* status.get(request_id) handing out the stored dict itself
StoreGetCallLive(id) ==
  /\ call' = Response("get", "live", "returned", id, StoreGet(data, id))
  /\ UNCHANGED <<data, active, cancel, thr, joints, nextId, mode, camera, preempted, video, lrw>>

\* status.get(request_id): dict(self._data.get(request_id)) is a new dict
\* with the stored keys and values (all scalars); None for an absent id.
\* call.arg records whether the returned object is the stored one.
StoreGetCall(id) ==
  /\ call' = Response("get", "copy", "returned", id, StoreGet(data, id))
  /\ UNCHANGED <<data, active, cancel, thr, joints, nextId, mode, camera, preempted, video, lrw>>

\* what a caller may write into the dict it got back
CallerPatches == { [state |-> "tampered"], [message |-> "tampered", extra |-> "x"] }

\* the caller assigns into the dict returned by get(): the write lands in
\* the object it holds, which is the stored record only if get() handed it out
MutateReturned(patch) ==
  /\ call.op = "get"
  /\ call.body # NoBody
  /\ call' = Response("mutate", call.arg, "returned", call.id,
                      DictUpdate(call.body, patch))
  /\ data' = IF call.arg = "live"
             THEN [data EXCEPT ![call.id] = DictUpdate(@, patch)]
             ELSE data
  /\ UNCHANGED <<active, cancel, thr, joints, nextId, mode, camera, preempted, video, lrw>>

StoreNext ==
  \/ \E id \in 1..MaxReq, initial \in StoreInitials : StoreCreateCall(id, initial)
  \/ \E id \in 1..MaxReq, patch \in StorePatches : StoreUpdateCall(id, patch)
  \/ \E id \in 1..MaxReq : StoreGetCall(id)
  \/ \E patch \in CallerPatches : MutateReturned(patch)

\* the store of a freshly built app: empty
StoreInit == HttpInit /\ mode = "scripted"

StoreSpec == StoreInit /\ [][StoreNext]_vars

\* ------------------------------------------------- SafetyManager on its own
\* SafetyManager.joint_min / joint_max defaults: -2.5 and 2.5 for each joint
JointMin == -250
JointMax == 250

\* a target list that has six entries, each within [joint_min[i], joint_max[i]]
InLimits(targets) ==
  /\ Len(targets) = 6
  /\ \A i \in 1..6 : JointMin <= targets[i] /\ targets[i] <= JointMax

\* joint values handed to the gate: just below the minimum, on the maximum,
\* and 10.0
JointSamples == {-251, 250, 1000}

\* chunks handed to validate_targets: six targets, five targets, no targets
ChunkInputs ==
  { Chunk("phase", t, "0.9") :
      t \in [1..6 -> JointSamples] \cup [1..5 -> JointSamples] \cup {<<>>} }

\* safety.validate_targets(chunk)
ValidateCall(chunk) ==
  /\ call' = Response("validate_targets", "",
                      IF ValidateTargets(chunk) THEN "True" ELSE "False", None, chunk)
  /\ UNCHANGED <<data, active, cancel, thr, joints, nextId, mode, camera, preempted, video, lrw>>

SafetyNext == \E c \in ChunkInputs : ValidateCall(c)

\* SafetyManager(calibration_path=None): the default limits
SafetyInit == HttpInit /\ mode = "scripted"

SafetySpec == SafetyInit /\ [][SafetyNext]_vars

\* ------------------------------------------------------------- video.py
\* CameraCapture.max_reconnect_attempts
MaxReconnectAttempts == 5

\* the count of frames the stream has yielded saturates here
MaxEmit == 2

\* CameraCapture._open_camera: the old capture is released; when the new one
\* opens it replaces it and the attempt counter is reset, otherwise self.cap
\* stays the released capture
OpenCamera(v, index, width, height, opens) ==
  [ok |-> opens,
   v  |-> IF opens
          THEN [v EXCEPT !.opened = TRUE, !.index = index, !.width = width,
                         !.height = height, !.reconnect_attempts = 0]
          ELSE [v EXCEPT !.opened = FALSE]]

\* CameraCapture._reconnect: gives up after max_reconnect_attempts, otherwise
\* counts the attempt and reopens
Reconnect(v, opens) ==
  IF v.reconnect_attempts >= MaxReconnectAttempts
  THEN [ok |-> FALSE, v |-> v]
  ELSE OpenCamera([v EXCEPT !.reconnect_attempts = @ + 1],
                  v.index, v.width, v.height, opens)

\* lines 76-82 and 94-101: the last good frame with True when there is one,
\* otherwise a black frame with a text and False
Fallback(v) ==
  IF v.last_frame # "None"
  THEN [ok |-> TRUE, frame |-> "last", failed |-> TRUE, v |-> v]
  ELSE [ok |-> FALSE, frame |-> "error", failed |-> TRUE, v |-> v]

\* lines 84-105: cap.read(), a reconnection and a second cap.read() when the
\* first gave nothing.  e says what the device does in this call.
ReadOpened(v, e, failedBefore) ==
  IF e.read1
  THEN [ok |-> TRUE, frame |-> "live", failed |-> failedBefore,
        v |-> [v EXCEPT !.last_frame = "frame"]]
  ELSE LET r == Reconnect(v, e.open2)
       IN  IF r.ok /\ e.read2
           THEN [ok |-> TRUE, frame |-> "live", failed |-> TRUE,
                 v |-> [r.v EXCEPT !.last_frame = "frame"]]
           ELSE Fallback(r.v)

\* CameraCapture.read
CameraRead(v, e) ==
  IF ~v.opened
  THEN LET r == Reconnect(v, e.open1)
       IN  IF ~r.ok THEN Fallback(r.v) ELSE ReadOpened(r.v, e, TRUE)
  ELSE ReadOpened(v, e, FALSE)

\* what the device and the encoder may do during one iteration
DeviceOutcomes == [open1 : BOOLEAN, read1 : BOOLEAN, open2 : BOOLEAN, read2 : BOOLEAN,
                   encodes : BOOLEAN]

\* mjpeg_stream lines 131-153, the part of one iteration after the rate
\* limiter: not ok -> sleep and continue; imencode failed -> continue;
\* otherwise the frame is yielded
StreamOut(r, e) ==
  IF ~r.ok THEN "dropped"
  ELSE IF ~e.encodes THEN "encode_failed"
  ELSE r.frame

\* one iteration of the while loop of mjpeg_stream
StreamIteration(e) ==
  /\ LET r == CameraRead(video, e)
         o == StreamOut(r, e)
     IN  video' = [r.v EXCEPT
                     !.read = IF r.failed THEN "failed" ELSE "ok",
                     !.out = o,
                     !.emitted = IF o \in {"live", "last", "error"} /\ @ < MaxEmit
                                 THEN @ + 1 ELSE @]
  /\ call' = Call("mjpeg_stream", "", "next", None)
  /\ UNCHANGED <<data, active, cancel, thr, joints, nextId, mode, camera, preempted, lrw>>

\* an absent query parameter
NoParam == -1

\* query strings of GET /video_feed: camera, width and height, each absent or
\* an integer (a non-integer makes all three absent, lines 68-73)
FeedQueries == [camera : {NoParam, 0, 1}, width : {NoParam, 640}, height : {NoParam, 480}]

\* GET /video_feed, lines 64-81: switch camera or resolution when a parameter
\* is given, then answer with a new mjpeg_stream over the shared camera
VideoFeed(q, opens) ==
  /\ video' = IF q.camera # NoParam \/ q.width # NoParam \/ q.height # NoParam
              THEN OpenCamera(video,
                              IF q.camera # NoParam THEN q.camera ELSE video.index,
                              IF q.width # NoParam THEN q.width ELSE video.width,
                              IF q.height # NoParam THEN q.height ELSE video.height,
                              opens).v
              ELSE video
  /\ call' = Call("GET /video_feed", "", "200", None)
  /\ UNCHANGED <<data, active, cancel, thr, joints, nextId, mode, camera, preempted, lrw>>

VideoNext ==
  \/ \E q \in FeedQueries, opens \in BOOLEAN : VideoFeed(q, opens)
  \/ \E e \in DeviceOutcomes : StreamIteration(e)

VideoInit == HttpInit /\ mode = "scripted"

VideoSpec == VideoInit /\ [][VideoNext]_vars

\* ------------------------------------------------------- lerobot_worker.py
\* LeRobotWorker.enqueue_replay: mint an id, create the queued Status, put the
\* task at the back of the queue
EnqueueReplay ==
  /\ nextId \in Ids
  /\ data' = StoreCreate(data, nextId,
               [state |-> "queued", phase |-> "None", message |-> "LeRobot replay queued"])
  /\ lrw' = [lrw EXCEPT !.queue = Append(@, nextId)]
  /\ nextId' = nextId + 1
  /\ call' = Call("enqueue_replay", "", "returned", nextId)
  /\ UNCHANGED <<active, cancel, thr, joints, mode, camera, preempted, video>>

\* a worker that takes the newest task instead of the oldest
LoopGetNewest ==
  /\ lrw.pc = "get" /\ lrw.queue # <<>>
  /\ lrw' = [lrw EXCEPT !.item = lrw.queue[Len(lrw.queue)],
                        !.queue = SubSeq(lrw.queue, 1, Len(lrw.queue) - 1),
                        !.pc = "init"]
  /\ call' = NoCall
  /\ UNCHANGED <<data, active, cancel, thr, joints, nextId, mode, camera, preempted, video>>

\* lines 93-96: item = self.queue.get() blocks on an empty queue and takes
\* the oldest task (nothing ever puts None)
LoopGet ==
  /\ lrw.pc = "get" /\ lrw.queue # <<>>
  /\ lrw' = [lrw EXCEPT !.item = Head(lrw.queue), !.queue = Tail(lrw.queue),
                        !.pc = "init"]
  /\ call' = NoCall
  /\ UNCHANGED <<data, active, cancel, thr, joints, nextId, mode, camera, preempted, video>>

\* _ensure_initialized when not yet initialised: everything loads, the lazy
\* imports fail (RuntimeError), or the robot or the dataset cannot be built
InitOutcomes == {"ok", "imports_fail", "setup_fails"}

\* line 99: self._ensure_initialized(); _initialized becomes True only at the
\* end of a complete setup, so a failed setup is tried again by the next task
LoopEnsureInitialized ==
  /\ lrw.pc = "init"
  /\ IF lrw.initialized
     THEN lrw' = [lrw EXCEPT !.pc = "executing"]
     ELSE \E o \in InitOutcomes :
            lrw' = IF o = "ok"
                   THEN [lrw EXCEPT !.initialized = TRUE, !.pc = "executing"]
                   ELSE [lrw EXCEPT !.pc = "except"]
  /\ call' = NoCall
  /\ UNCHANGED <<data, active, cancel, thr, joints, nextId, mode, camera, preempted, video>>

\* line 100: status_store.update(executing / replay / Replaying episode)
LoopExecuting ==
  /\ lrw.pc = "executing"
  /\ data' = StoreUpdate(data, lrw.item,
               [state |-> "executing", phase |-> "replay", message |-> "Replaying episode"])
  /\ lrw' = [lrw EXCEPT !.pc = "replay"]
  /\ call' = NoCall
  /\ UNCHANGED <<active, cancel, thr, joints, nextId, mode, camera, preempted, video>>

\* lines 101-113: log_say, the frames sent to the robot, the neutral action;
\* any of them may raise
LoopReplay ==
  /\ lrw.pc = "replay"
  /\ \E o \in {"returns", "raises"} :
       lrw' = [lrw EXCEPT !.pc = IF o = "returns" THEN "finish" ELSE "except"]
  /\ call' = NoCall
  /\ UNCHANGED <<data, active, cancel, thr, joints, nextId, mode, camera, preempted, video>>

\* line 114: status_store.update(succeeded / Episode finished)
LoopFinish ==
  /\ lrw.pc = "finish"
  /\ data' = StoreUpdate(data, lrw.item,
               [state |-> "succeeded", message |-> "Episode finished"])
  /\ lrw' = [lrw EXCEPT !.pc = "task_done"]
  /\ call' = NoCall
  /\ UNCHANGED <<active, cancel, thr, joints, nextId, mode, camera, preempted, video>>

\* lines 115-122: except Exception as e: status_store.update(failed / str(e)),
\* then the logger
LoopExcept ==
  /\ lrw.pc = "except"
  /\ data' = StoreUpdate(data, lrw.item, [state |-> "failed", message |-> "str(e)"])
  /\ lrw' = [lrw EXCEPT !.pc = "task_done"]
  /\ call' = NoCall
  /\ UNCHANGED <<active, cancel, thr, joints, nextId, mode, camera, preempted, video>>

\* lines 123-124: finally: self.queue.task_done(); back to queue.get().
\* lrw.done is the history of the tasks finished, oldest first.
LoopTaskDone ==
  /\ lrw.pc = "task_done"
  /\ lrw' = [lrw EXCEPT !.done = Append(@, lrw.item), !.item = None, !.pc = "get"]
  /\ call' = NoCall
  /\ UNCHANGED <<data, active, cancel, thr, joints, nextId, mode, camera, preempted, video>>

\* LeRobotWorker._loop
LoopStep ==
  \/ LoopGet
  \/ LoopEnsureInitialized
  \/ LoopExecuting
  \/ LoopReplay
  \/ LoopFinish
  \/ LoopExcept
  \/ LoopTaskDone

\* Replays a client enqueues: three, so that a task can fail between two others.
MaxReplays == 3

LrwNext ==
  \/ nextId <= MaxReplays /\ EnqueueReplay
  \/ LoopStep

LrwInit == HttpInit /\ mode = "scripted"

LrwSpec == LrwInit /\ [][LrwNext]_vars

\* the worker thread is scheduled whenever it can run; the calls it makes
\* into lerobot return or raise
LrwFairSpec == LrwSpec /\ WF_vars(LoopStep)

\* ==================================================================== claims
IsJob(r) == thr[r].kind = "job"
IsHome(r) == thr[r].kind = "home"
Running(r) == thr[r].kind # "none" /\ thr[r].pc # "done"

\* C1: at no instant do two requests admitted by start() both have a
\* non-terminal Status.
C1_OneNonTerminalCommand ==
  \A r1, r2 \in Ids :
    (IsJob(r1) /\ IsJob(r2) /\ NonTerminal(data, r1) /\ NonTerminal(data, r2)) => r1 = r2

\* C2: a request admitted by start() that was non-terminal when
\* interrupt_and_home() was called ends aborted with message "Interrupted by
\* Go Home", and the go-home request ends succeeded with "At home pose" (or
\* failed).  Stated on the final results, for the case the spec's preemption
\* scenario names (scripted producer, go home issued mid-way, while the worker
\* still has chunks to pull): a preempted request that is terminal is
\* aborted, and a homing request that is terminal is succeeded or failed.
C2_PreemptedEndsAborted ==
  /\ \A e \in preempted :
       (mode = "scripted" /\ e.ahead /\ IsTerminal(data, e.id)) =>
         /\ data[e.id].state = "aborted"
         /\ data[e.id].message = "Interrupted by Go Home"
  /\ \A h \in Ids :
       (IsHome(h) /\ IsTerminal(data, h)) =>
         \/ data[h].state = "succeeded" /\ data[h].message = "At home pose"
         \/ data[h].state = "failed"

\* C3: start() called while the active slot is occupied raises BusyError and
\* changes nothing: whenever the slot is occupied a start() call can be made,
\* every start() made then returns BusyError, and the step that returns
\* BusyError leaves the store, the slot, the cancel flag, the threads, the
\* arm and the id counter as they were; no command thread appears while the
\* slot is occupied.
C3_BusyChangesNothing ==
  /\ [](active # None => ENABLED (\E p \in Prompts : Start(p)))
  /\ [][ /\ (call'.op = "start" /\ active # None) => call'.code = "BusyError"
         /\ call'.code = "BusyError" =>
              /\ active # None
              /\ UNCHANGED <<data, active, cancel, thr, joints, nextId>>
         /\ \A r \in Ids : (~IsJob(r) /\ thr'[r].kind = "job") => active = None
       ]_vars

\* C3 witness: a start() has just been refused while a command is running
C3_Witness ==
  /\ call.op = "start" /\ call.code = "BusyError"
  /\ active # None /\ IsJob(active) /\ NonTerminal(data, active)

\* C6: interrupt_and_home() is never refused: in every reachable state (slot
\* empty or occupied, cancel flag set or clear, another homing task in flight)
\* it can be called, and the call sets the cancel flag, returns a RequestId no
\* Status had before and creates a Status in state executing with message
\* "Go home", together with its homing thread.
C6_GoHomeAlwaysAdmitted ==
  /\ [](nextId \in Ids => ENABLED InterruptAndHome)
  /\ [][ call'.op = "interrupt_and_home" =>
           /\ call'.code = "returned"
           /\ cancel'
           /\ call'.id \notin DOMAIN data
           /\ call'.id \in DOMAIN data'
           /\ data'[call'.id] =
                [state |-> "executing", phase |-> "None", message |-> "Go home"]
           /\ thr'[call'.id].kind = "home"
       ]_vars

\* C6 witness: a go-home has just been admitted while another homing task is
\* still in flight
C6_Witness ==
  /\ call.op = "interrupt_and_home"
  /\ \E h \in Ids : h # call.id /\ IsHome(h) /\ Running(h)
  /\ data[call.id].state = "executing" /\ cancel

\* C7: once the Status of a request created by the CommandManager is
\* succeeded, failed or aborted, no field of it changes in any later step.
C7_TerminalStatusFrozen ==
  [][ \A r \in DOMAIN data :
        data[r].state \in Terminal => (r \in DOMAIN data' /\ data'[r] = data[r])
    ]_vars

\* C7 witness: a command request is aborted and its worker has finished,
\* while another thread of the manager is still running
C7_Witness ==
  \E r \in Ids :
    /\ IsJob(r) /\ thr[r].pc = "done"
    /\ data[r].state = "aborted"
    /\ \E x \in Ids : x # r /\ Running(x)

\* a request accepted by POST /command
IsEpisode(r) == thr[r].kind = "episode"

\* C4: POST /command with a whitelisted prompt other than "go home", sent
\* while an earlier accepted command is still non-terminal, answers 409 with
\* error.code "busy" and starts no second worker.
C4_BusyAnswers409 ==
  [][ ( /\ call'.op = "POST /command"
        /\ call'.arg \in ALLOWED_PROMPTS \ {"go home"}
        /\ \E r \in Ids : IsEpisode(r) /\ NonTerminal(data, r) )
      => /\ call'.code = "409"
         /\ "error" \in DOMAIN call'.body
         /\ call'.body.error.code = "busy"
         /\ thr' = thr
    ]_vars

\* C5: POST /command with a prompt outside the whitelist answers 400 with
\* error.code "invalid", creates no Status and starts no worker.
C5_InvalidPromptAnswers400 ==
  [][ (call'.op = "POST /command" /\ call'.arg \notin ALLOWED_PROMPTS)
      => /\ call'.code = "400"
         /\ "error" \in DOMAIN call'.body
         /\ call'.body.error.code = "invalid"
         /\ data' = data
         /\ thr' = thr
    ]_vars

\* C10: every request id answered with 202 by POST /command is eventually
\* seen terminal by a client polling GET /status, whatever fails inside the
\* worker.  Only the request's own worker writes its Status, so what the
\* claim needs of every finite run is: once that worker has ended, GET
\* /status/<id> shows succeeded, failed or aborted.
C10_EndedEpisodeIsTerminal ==
  \A r \in Ids :
    (IsEpisode(r) /\ thr[r].pc = "done") => StoreGet(data, r).state \in Terminal

\* C8: update(id, patch) is silently ignored, leaving the store unchanged,
\* when id is absent and when the stored Status is already terminal.
C8_UpdateIgnoredWhenAbsentOrTerminal ==
  [][ ( /\ call'.op = "update"
        /\ (call'.id \notin DOMAIN data \/ data[call'.id].state \in Terminal) )
      => data' = data
    ]_vars

\* C9: under fair scheduling every request admitted by start() eventually
\* has a terminal Status, whatever the producer's mode and with no go-home
\* needed: an admitted request leads to its terminal Status unless a go-home
\* has been called in the meantime.
C9_AdmittedEventuallyTerminal ==
  \A r \in Ids : IsJob(r) ~> (IsTerminal(data, r) \/ \E h \in Ids : IsHome(h))

\* C11: every chunk a command worker passes to the arm's send_joint_targets
\* was validated, with result true, by that worker's step just before, the
\* worker's next step after the validation being the send of that same chunk;
\* a worker touches the arm only in its send and in the cancel path's home();
\* a chunk whose validation fails ends the worker without an arm call.
C11_ValidatedBeforeSend ==
  [][ \A r \in Ids : IsJob(r) =>
        /\ (thr'[r].pc = "arm" /\ thr[r].pc # "arm") =>
             /\ thr[r].pc = "send"
             /\ thr'[r].chunk = thr[r].chunk
             /\ ValidateTargets(thr[r].chunk)
        /\ (thr[r].pc = "arm" /\ thr'[r] # thr[r]) =>
             /\ ValidateTargets(thr[r].chunk)
             /\ joints' = thr[r].chunk.targets
        /\ (thr'[r] # thr[r] /\ thr[r].pc \notin {"arm", "abort_home"}) =>
             joints' = joints
        /\ (thr[r].pc = "send" /\ ~ValidateTargets(thr[r].chunk) /\ thr'[r] # thr[r]) =>
             thr'[r].pc = "finally"
    ]_vars

\* C11 witness: a command worker has just sent its third chunk to the arm
C11_Witness ==
  \E r \in Ids :
    /\ IsJob(r) /\ thr[r].pc = "next" /\ thr[r].n = 3
    /\ ValidateTargets(thr[r].chunk)
    /\ joints = thr[r].chunk.targets

\* C12: validate_targets(chunk) returns true if and only if chunk.targets has
\* exactly 6 entries and every entry lies within its joint's limits.
C12_ValidateIffInLimits ==
  call.op = "validate_targets" =>
    (call.code = "True" <=> InLimits(call.body.targets))

\* C13: for every request id, each change of Status.state follows an edge of
\* the state machine queued -> planning -> executing -> (handoff_macro ->)
\* succeeded, executing -> aborted, executing -> failed.
C13_StateFollowsEdges ==
  [][ LET StateEdges ==
            { <<"queued", "planning">>, <<"planning", "executing">>,
              <<"executing", "handoff_macro">>, <<"executing", "succeeded">>,
              <<"handoff_macro", "succeeded">>,
              <<"executing", "aborted">>, <<"executing", "failed">> }
      IN \A r \in DOMAIN data :
           (r \in DOMAIN data' /\ data'[r].state # data[r].state) =>
             <<data[r].state, data'[r].state>> \in StateEdges
    ]_vars

\* C14: an uninterrupted "pick up the ball" request run with the scripted
\* producer passes through planning, executing, handoff_macro and succeeded
\* in that order and ends with duration_ms set: when no go-home was ever
\* called, the step that makes such a request succeeded finds it in
\* handoff_macro and leaves a duration_ms in its Status.
C14_BallPassesHandoff ==
  [][ \A r \in Ids :
        ( /\ IsJob(r) /\ thr[r].prompt = "pick up the ball"
          /\ mode = "scripted"
          /\ \A h \in Ids : ~IsHome(h)
          /\ data[r].state # "succeeded" /\ data'[r].state = "succeeded" )
        => /\ data[r].state = "handoff_macro"
           /\ "duration_ms" \in DOMAIN data'[r]
    ]_vars

\* C15: the worker sets Status to handoff_macro before it invokes
\* throw_macro(): whenever a worker is at its throw_macro() call, its
\* request's Status.state is handoff_macro.
C15_HandoffBeforeThrow ==
  \A r \in Ids : At(r, "job", "throw") => data[r].state = "handoff_macro"

\* C16: whenever the Status of a request admitted by start() is terminal, its
\* duration_ms field is set.
C16_TerminalHasDuration ==
  \A r \in Ids :
    (IsJob(r) /\ IsTerminal(data, r)) => "duration_ms" \in DOMAIN data[r]

\* C17: after two interrupt_and_home() calls, with or without an active
\* command, once every worker has finished: both go-home Statuses are
\* terminal and the arm's last commanded pose is the home pose.
C17_DoubleGoHomeEndsAtHome ==
  ( /\ \E h1, h2 \in Ids : h1 # h2 /\ IsHome(h1) /\ IsHome(h2)
    /\ \A r \in Ids : ~Running(r) )
  => /\ \A h \in Ids : IsHome(h) => IsTerminal(data, h)
     /\ joints = HomePose

\* C18: GET /status/{id} for an id that was never issued returns 200 with
\* {state: "failed", phase: null, message: "unknown request_id"} and leaves
\* the store unchanged, with no entry for that id.
C18_UnknownIdAnswers200 ==
  [][ (call'.op = "GET /status" /\ call'.id \notin DOMAIN data) =>
        /\ call'.code = "200"
        /\ call'.body = [state |-> "failed", phase |-> "None", message |-> "unknown request_id"]
        /\ data' = data
        /\ call'.id \notin DOMAIN data'
    ]_vars

\* C18 witness: a poll for an unknown id has just been answered while the
\* store holds another request
C18_Witness ==
  /\ call.op = "GET /status" /\ call.id \notin DOMAIN data
  /\ call.body.message = "unknown request_id"
  /\ DOMAIN data # {}

\* C19: POST /dispense_treat returns 200 with {status: "ok"} for every
\* integer duration_ms, a negative one included.
C19_DispenseAnswers200 ==
  [][ call'.op = "POST /dispense_treat" =>
        /\ call'.code = "200"
        /\ call'.body = [status |-> "ok"]
    ]_vars

\* C20: POST /speak returns 200 with {status: "ok"} for a non-empty text and
\* 400 when text is missing or empty.
C20_SpeakAnswers ==
  [][ call'.op = "POST /speak" =>
        IF call'.arg \in {"None", ""}
        THEN call'.code = "400"
        ELSE call'.code = "200" /\ call'.body = [status |-> "ok"]
    ]_vars

\* C21: get(id) returns a snapshot: a write into the returned dict leaves the
\* store as it was, the get that follows returns the stored record and not the
\* tampered one, and get of an absent id returns None and creates no entry.
C21_GetReturnsSnapshot ==
  [][ /\ call'.op = "mutate" => data' = data
      /\ (call.op = "mutate" /\ call'.op = "get" /\ call'.id = call.id)
           => call'.body = data[call.id]
      /\ (call'.op = "get" /\ call'.id \notin DOMAIN data)
           => (call'.body = NoBody /\ data' = data) ]_vars

\* the caller holds a tampered copy of a record that the store still has intact
C21_Witness ==
  /\ call.op = "mutate"
  /\ call.id \in DOMAIN data
  /\ call.body # data[call.id]
  /\ call.body.state = "tampered"
  /\ data[call.id].state # "tampered"

\* C22: every chunk yielded by the scripted producer, for every prompt, has
\* exactly 6 targets and each target lies in [-pi, pi] (3.14 in hundredths):
\* the chunk a worker last received from the scripted generator is so.
C22_ScriptedTargetsWithinPi ==
  \A r \in Ids :
    (IsJob(r) /\ mode = "scripted" /\ thr[r].n >= 1)
      => /\ Len(thr[r].chunk.targets) = 6
         /\ \A i \in 1..Len(thr[r].chunk.targets) :
              thr[r].chunk.targets[i] >= -314 /\ thr[r].chunk.targets[i] <= 314

\* C23: GET /health always returns 200 with the fields status, api and
\* version, in every state of the system, and changes no state: it can be
\* called in every reachable state, and each answer has code 200, a body with
\* exactly those three fields, and leaves the store, the active slot, the
\* cancel flag, the threads and the arm as they were.
C23_HealthPure ==
  /\ [](ENABLED Health)
  /\ [][ call'.op = "GET /health" =>
           /\ call'.code = "200"
           /\ DOMAIN call'.body = {"status", "api", "version"}
           /\ call'.body.status = "ok"
           /\ UNCHANGED <<data, active, cancel, thr, joints, nextId>>
       ]_vars

\* C23 witness: /health has answered while an episode thread is in its loop
\* and its request is not terminal
C23_Witness ==
  /\ call.op = "GET /health" /\ call.code = "200"
  /\ \E r \in Ids : IsEpisode(r) /\ thr[r].pc = "loop" /\ NonTerminal(data, r)

\* C24: the active slot is occupied by r exactly while Status(r) is
\* non-terminal (outside a preemption), so once Status(r) is terminal the slot
\* is empty and a start() made then is admitted: when no go-home was ever
\* called, a terminal command does not hold the slot, and a start() is
\* refused with BusyError only while the slot's request is non-terminal.
C24_TerminalFreesSlot ==
  /\ [](\A r \in Ids :
          (IsJob(r) /\ IsTerminal(data, r) /\ \A h \in Ids : ~IsHome(h))
            => active # r)
  /\ [][ (call'.code = "BusyError" /\ \A h \in Ids : ~IsHome(h))
           => NonTerminal(data, active) ]_vars

\* C25: after interrupt_and_home() sets the cancel flag while a command worker
\* is running, that worker makes at most one further send_joint_targets call
\* before it sees the cancellation and stops sending.  A worker at its loop
\* head has sent every chunk it pulled, and when preempted it had sent at
\* most the e.n chunks it had pulled: back at its loop head it has pulled
\* (and sent) at most one chunk more.
C25_AtMostOneSendAfterCancel ==
  \A e \in preempted :
    (IsJob(e.id) /\ thr[e.id].pc = "next") => thr[e.id].n <= e.n + 1

\* C26: while a request admitted by start() is non-terminal, no thread other
\* than that request's worker executes an arm operation: the step in which a
\* homing thread calls arm.home() is taken only when no command request is
\* non-terminal.
C26_ArmOwnedByWorker ==
  [][ \A h \in Ids :
        (At(h, "home", "home") /\ thr'[h].pc # "home")
          => \A r \in Ids : IsJob(r) => ~NonTerminal(data, r)
    ]_vars

\* C27: if the cancel flag is set after a request is admitted but before its
\* worker's first loop iteration, the worker makes no send_joint_targets and
\* no throw_macro call, calls home() once and ends with Status aborted: with
\* the scripted producer, a worker preempted before it pulled its first chunk
\* is never back at its loop head with a chunk sent, never at the throw, and
\* its Status, once terminal, is aborted.
C27_CancelBeforeLoopAborts ==
  \A e \in preempted :
    (mode = "scripted" /\ e.n = 0 /\ e.ahead /\ IsJob(e.id))
      => /\ thr[e.id].pc = "next" => thr[e.id].n = 0
         /\ thr[e.id].pc \notin {"throw", "handoff"}
         /\ IsTerminal(data, e.id) => data[e.id].state = "aborted"

\* C29: an exception raised by the arm or by the producer inside a command
\* worker makes the request's final Status failed with the exception's
\* message; the worker still releases the slot and clears the cancel flag, and
\* the exception does not leave the thread.  A worker whose try block raised
\* can always go on; its next step writes failed with the message and nothing
\* else of the Status changes state afterwards; it then empties the slot,
\* clears the flag and ends.  The homing worker's except clause does the same
\* with "home error".
C29_ExceptionsBecomeFailed ==
  /\ [](\A r \in Ids : (IsJob(r) /\ thr[r].pc = "except") => ENABLED JobExcept(r))
  /\ [][ \A r \in Ids :
           /\ (IsJob(r) /\ thr[r].pc = "except" /\ thr'[r] # thr[r])
                => /\ data'[r].state = "failed" /\ data'[r].message = "str(e)"
                   /\ thr'[r].pc = "finally"
           /\ (thr[r].kind = "home" /\ thr[r].pc = "home_except" /\ thr'[r] # thr[r])
                => /\ data'[r].state = "failed"
                   /\ thr'[r].pc = "finally"
           /\ (IsJob(r) /\ data[r].state = "failed" /\ data[r].message = "str(e)")
                => data'[r] = data[r]
           /\ (thr[r].pc = "finally" /\ thr'[r] # thr[r])
                => (active' = None /\ thr'[r].pc = "clear")
           /\ (thr[r].pc = "clear" /\ thr'[r] # thr[r])
                => (~cancel' /\ thr'[r].pc = "done")
       ]_vars
  /\ [](\A r \in Ids : thr[r].pc \in {"finally", "clear"} => ENABLED ThreadStep(r))

\* C29 witness: throw_macro() raised in a worker (no chunk was produced, so
\* the producer did not raise); the worker has ended, its Status is failed
\* with the exception's message, the slot is empty and the flag clear
C29_Witness ==
  \E r \in Ids :
    /\ IsJob(r) /\ thr[r].pc = "done"
    /\ mode = "smolvla" /\ camera = "None"
    /\ data[r].state = "failed" /\ data[r].message = "str(e)"
    /\ active = None /\ ~cancel

\* C30: a Status becomes aborted only after that same worker's call to
\* arm.home() has returned normally: the step that writes aborted is taken by
\* the request's own worker standing after its home() call, a worker gets
\* there only by the step in which its home() call put the arm at the home
\* pose, and a worker that went to its except clause writes failed, never
\* aborted.
C30_AbortedOnlyAfterHome ==
  [][ \A r \in Ids :
        /\ (r \in DOMAIN data /\ data[r].state # "aborted" /\ data'[r].state = "aborted")
             => (IsJob(r) /\ thr[r].pc = "abort_upd" /\ thr'[r].pc = "finally")
        /\ (thr[r].pc # "abort_upd" /\ thr'[r].pc = "abort_upd")
             => (IsJob(r) /\ thr[r].pc = "abort_home" /\ joints' = HomePose)
        /\ (IsJob(r) /\ thr[r].pc = "except" /\ thr'[r] # thr[r])
             => data'[r].state # "aborted"
    ]_vars

\* C30 witness: a worker that saw the cancel flag has homed the arm and then
\* written aborted
C30_Witness ==
  \E r \in Ids :
    /\ IsJob(r) /\ thr[r].pc = "finally"
    /\ data[r].state = "aborted" /\ data[r].message = "Interrupted by Go Home"

\* The producer of this worker yields no chunk at all: smolvla mode without a
\* camera (or without a loaded policy) returns at once.
ZeroChunks(r) == IsJob(r) /\ mode = "smolvla" /\ ~SmolRuns

\* C31 as stated: if the producer yields zero chunks, the worker makes no
\* send_joint_targets call, still evaluates the handoff guard and then ends
\* with Status succeeded, even if the cancel flag was set meanwhile: such a
\* worker is never at a send, at the cancel path or in its except clause, and
\* its Status, once terminal, is succeeded.
C31_ZeroChunksSucceeds ==
  \A r \in Ids :
    ZeroChunks(r)
      => /\ thr[r].pc \notin {"send", "arm", "abort_home", "abort_upd", "except"}
         /\ IsTerminal(data, r) => data[r].state = "succeeded"

\* C31 amended: the same, except that the worker ends failed when the
\* throw_macro() call the guard let through raises.  The worker leaves its
\* loop head for the guard whatever the cancel flag is, enters its except
\* clause only from the throw_macro() call, and ends succeeded otherwise.
C31_ZeroChunksSucceedsUnlessThrowRaises ==
  [][ \A r \in Ids :
        ZeroChunks(r)
          => /\ thr'[r].pc \notin {"send", "arm", "abort_home", "abort_upd"}
             /\ (thr[r].pc = "next" /\ thr'[r] # thr[r]) => thr'[r].pc = "guard"
             /\ (thr[r].pc # "except" /\ thr'[r].pc = "except") => thr[r].pc = "throw"
             /\ (r \in DOMAIN data /\ ~IsTerminal(data, r) /\ IsTerminal(data', r))
                  => \/ data'[r].state = "succeeded" /\ thr[r].pc = "succeed"
                     \/ data'[r].state = "failed" /\ thr[r].pc = "except"
             /\ thr'[r].pc = "done" => IsTerminal(data', r)
    ]_vars

\* C31 witness: a worker whose producer yielded nothing was preempted by a
\* go-home and has ended succeeded
C31_Witness ==
  \E r \in Ids :
    /\ ZeroChunks(r) /\ thr[r].pc = "done" /\ thr[r].n = 0
    /\ \E e \in preempted : e.id = r
    /\ data[r].state = "succeeded"

\* C32: throw_macro() is invoked by a worker only after its chunk stream has
\* ended normally and only when the prompt is "pick up the ball" and
\* ready_to_throw(arm.get_joint_angles()) and workspace_clear() are true; a
\* "get the treat" worker, a homing worker and a worker that failed or
\* aborted never invoke it.  A thread comes to the throw_macro() call only
\* from the guard, in a step that finds the three conditions true; it comes
\* to the guard only from the loop head when the generator has ended; and
\* the thread at the call is a "pick up the ball" command worker whose Status
\* is not terminal.
C32_ThrowOnlyThroughGuard ==
  /\ [][ \A r \in Ids :
           /\ (thr[r].pc # "throw" /\ thr'[r].pc = "throw")
                => /\ At(r, "job", "guard")
                   /\ thr[r].prompt = "pick up the ball"
                   /\ ReadyToThrow(joints)
                   /\ WorkspaceClear
           /\ (thr[r].pc # "guard" /\ thr'[r].pc = "guard")
                => /\ At(r, "job", "next")
                   /\ [kind |-> "end"] \in InferNext(thr[r].prompt, thr[r].n)
       ]_vars
  /\ [](\A r \in Ids :
          thr[r].pc = "throw"
            => (IsJob(r) /\ thr[r].prompt = "pick up the ball" /\ NonTerminal(data, r)))

\* C32 witness: a "pick up the ball" worker has made its throw_macro() call
\* with the arm in the ready pose
C32_Witness ==
  \E r \in Ids :
    /\ At(r, "job", "handoff") /\ thr[r].prompt = "pick up the ball"
    /\ ReadyToThrow(joints)

\* C33: when several start() calls race on an empty slot, exactly one is
\* admitted (its id occupies the slot and the cancel flag is cleared in the
\* same critical section) and every other call gets BusyError.  The critical
\* section of lines 33-38 is one step: a start() is admitted only on an empty
\* slot, the step that admits it puts its new id in the slot and leaves the
\* cancel flag clear, and a start() that finds the slot occupied, the first
\* caller's worker not yet begun included, raises BusyError.
C33_OneAdmissionPerEmptySlot ==
  [][ /\ (call'.op = "start" /\ call'.code = "returned")
           => /\ active = None
              /\ call'.id \notin DOMAIN data
              /\ active' = call'.id
              /\ ~cancel'
      /\ (call'.op = "start" /\ active # None)
           => (call'.code = "BusyError" /\ active' = active)
    ]_vars

\* C33 witness: a second start() came before the admitted worker took its
\* first step, and was refused; the slot still holds the first caller's id
C33_Witness ==
  /\ call.op = "start" /\ call.code = "BusyError"
  /\ active # None /\ At(active, "job", "begin")
  /\ ~cancel

C35_ReadFailureStillEmits ==
  video.read = "failed" => video.out # "dropped"

\* C36: the active slot is emptied only by the worker whose request id
\* occupies it: no thread's finally block empties the slot while the slot
\* holds the id of a different request that is still non-terminal.
C36_SlotClearedByOwner ==
  [][ \A r \in Ids :
        (thr[r].pc = "finally" /\ thr'[r].pc = "clear" /\ active # None /\ active # r)
          => ~NonTerminal(data, active)
    ]_vars

\* C37: once interrupt_and_home() has set the cancel flag while a "pick up
\* the ball" worker is running, that worker never afterwards invokes
\* throw_macro(): no worker that was preempted while non-terminal takes the
\* step of its throw_macro() call.
C37_NoThrowAfterCancel ==
  [][ \A r \in Ids :
        (At(r, "job", "throw") /\ thr'[r].pc # "throw")
          => \A e \in preempted : e.id # r
    ]_vars

\* C38: a request admitted by start() ends aborted only if some
\* interrupt_and_home() call set the cancel flag after that request's
\* admission; a go-home issued and completed before the admission never
\* aborts the later request.  Every aborted command is one that a go-home
\* preempted while it was admitted and non-terminal, and a worker takes the
\* cancel path only then.
C38_AbortedOnlyIfPreempted ==
  \A r \in Ids :
    (IsJob(r) /\ (thr[r].pc \in {"abort_home", "abort_upd"} \/ data[r].state = "aborted"))
      => \E e \in preempted : e.id = r

\* C38 witness: a command preempted after its admission has ended aborted
C38_Witness ==
  \E r \in Ids :
    /\ IsJob(r) /\ data[r].state = "aborted" /\ thr[r].pc = "done"
    /\ \E e \in preempted : e.id = r

\* the ids of a sequence
Range(q) == { q[i] : i \in 1..Len(q) }

\* C39: the LeRobotWorker executes the enqueued replays one at a time in the
\* order they were enqueued; every enqueued request's Status goes from queued
\* to succeeded or failed; and a task that fails (a failed lazy initialisation
\* included) does not stop the worker from processing later tasks.  The tasks
\* finished, the task in hand and the tasks waiting are, in this order, the
\* requests in the order of their enqueueing; a waiting request is queued and
\* a finished one is succeeded or failed; the worker is never stuck with a
\* task in hand or with a task waiting; and every request enqueued is
\* eventually succeeded or failed.
C39_ReplaysInOrderAllEnd ==
  /\ [](LET order == lrw.done \o (IF lrw.item = None THEN <<>> ELSE <<lrw.item>>) \o lrw.queue
        IN  /\ order = [i \in 1..(nextId - 1) |-> i]
            /\ \A r \in Range(lrw.queue) : data[r].state = "queued"
            /\ \A r \in Range(lrw.done) : data[r].state \in {"succeeded", "failed"}
            /\ (lrw.item # None \/ lrw.queue # <<>>) => ENABLED LoopStep)
  /\ \A r \in Ids :
       (r \in DOMAIN data)
         ~> (r \in DOMAIN data /\ data[r].state \in {"succeeded", "failed"})

\* C39 witness: three replays were enqueued; the first failed in its lazy
\* initialisation, the second failed during the replay and the third has
\* succeeded
C39_Witness ==
  /\ lrw.done = <<1, 2, 3>> /\ lrw.pc = "get"
  /\ data[1].state = "failed" /\ data[1].phase = "None"
  /\ data[2].state = "failed" /\ data[2].phase = "replay"
  /\ data[3].state = "succeeded"

====
